---- MODULE Spec2Model ----
(***************************************************************************)
(* Model of anaconda_lib/worker.py: the WORKERS registry (Worker.execute), *)
(* BaseWorker's probes and start_json_server, LocalWorker (port, start,    *)
(* sanitize_server, build_server) and RemoteWorker (__init__,              *)
(* check_config, check_status, start).                                     *)
(*                                                                         *)
(* Threads call Worker.execute; each thread's position in the code is      *)
(* pc[t].  The operating system, the server processes, the RPC client and  *)
(* the vagrant status check are the environment: their moves are the       *)
(* actions proc_bind, proc_exit, foreign_bind, foreign_release,            *)
(* client_drop and status_callback.                                        *)
(***************************************************************************)
EXTENDS Integers, Sequences, FiniteSets, TLC

\* ------------------------------------------------------------------ bounds
\* execute calls begun in all: by concurrent callers, by the one caller
ConcCalls == 2
SeqCalls == 3
\* subprocesses created, AsynClients created
MaxProcs == 2
MaxClients == 2
\* failed reachability polls counted per call (the count saturates)
MaxPolls == 1
\* nested sanitize_server activations before the interpreter's recursion
\* limit is hit
MaxDepth == 2

\* RemoteWorker.port: config['network'].get('port', 19360)
DefaultPort == 19360

Threads == {1, 2}
Windows == {1, 2}
Ports == {1, 2}
Cmds == {"cmdA", "cmdB"}

VARIABLES
    WORKERS,     \* window id -> worker object (the module-level dict)
    lockOwner,   \* WORKERS_LOCK: 0 when free, else the holding thread
    constructed, \* per window: constructor calls that returned an object
    procs,       \* every subprocess created by create_subprocess
    clients,     \* every AsynClient created
    foreign,     \* ports some process outside this program listens on
    active,      \* the threads that issue calls
    windows,     \* the windows the host has open
    pc,          \* per thread: position in the code
    win,         \* per thread: window_id of the current execute call
    callsLeft,   \* execute calls that may still begin
    frames,      \* per thread: the sanitize_server activations on its stack
    building,    \* per thread: the RemoteWorker its __init__ is running on
    stats,       \* per thread: what the current execute call has done
    observed     \* the threads whose calls are recorded in stats

vars == <<WORKERS, lockOwner, constructed, procs, clients, foreign, active,
          windows, pc, win, callsLeft, frames, building, stats, observed>>

\* ------------------------------------------------------------ data shapes
\* active_view().settings().get('vagrant_environment'): None (vagrant
\* FALSE) or a descriptor, of which only the presence of each key matters.
NoVagrant ==
    [vagrant |-> FALSE, directory |-> FALSE, network |-> FALSE,
     mode |-> FALSE, port |-> FALSE, machine |-> FALSE]

Descriptor(d, n, m, p, mc) ==
    [vagrant |-> TRUE, directory |-> d, network |-> n,
     mode |-> m, port |-> p, machine |-> mc]

Settings ==
    {NoVagrant,
     Descriptor(TRUE, TRUE, TRUE, TRUE, TRUE),
     Descriptor(TRUE, TRUE, TRUE, FALSE, TRUE),
     Descriptor(TRUE, FALSE, FALSE, FALSE, TRUE)}

\* BaseWorker.__init__: 0 stands for None (port, process, client).
BaseWorker(kind, config) ==
    [kind |-> kind, hostname |-> "localhost", available_port |-> 0,
     reconnecting |-> FALSE, process |-> 0, client |-> 0,
     support |-> "unset", config |-> config]

NoBuild ==
    [obj |-> BaseWorker("none", NoVagrant), cb |-> "none",
     checked |-> FALSE, polled |-> FALSE]

NoStats ==
    [cmd |-> "none", sent |-> <<>>, polls |-> 0, allocs |-> 0, spawns |-> 0,
     sanitized |-> 0, first |-> "none", created |-> FALSE, bound |-> 0, logged |-> FALSE,
     outcome |-> "none"]

\* ------------------------------------------------------------------ Init
InitWith(ts, obs, ws, n) ==
    /\ WORKERS = <<>>
    /\ lockOwner = 0
    /\ constructed = [w \in Windows |-> 0]
    /\ procs = <<>>
    /\ clients = <<>>
    /\ foreign = {}
    /\ active = ts
    /\ windows = ws
    /\ pc = [t \in Threads |-> "idle"]
    /\ win = [t \in Threads |-> 1]
    /\ observed = obs
    /\ callsLeft = n
    /\ frames = [t \in Threads |-> <<>>]
    /\ building = [t \in Threads |-> NoBuild]
    /\ stats = [t \in Threads |-> NoStats]

Init == InitWith(Threads, {}, Windows, ConcCalls)

\* --------------------------------------------------------------- helpers
Worker(t) == WORKERS[win[t]]

Min(a, b) == IF a < b THEN a ELSE b

\* A TCP connect to the port succeeds: a live server process of this program
\* has bound it, or a process outside this program has.
Listening(p) ==
    \/ p \in foreign
    \/ \E i \in DOMAIN procs :
          procs[i].bound /\ procs[i].port = p /\ procs[i].st # "dead"

\* BaseWorker.server_is_active: True iff the connect succeeds; every
\* socket.error (ECONNREFUSED or not) gives False.
server_is_active(w) == Listening(w.available_port)

\* BaseWorker.server_is_healthy, for a worker whose process is not None: the
\* set of values the call can return.  process.poll() is None while the
\* process has not exited (also between kill() and its death); then the
\* answer of whoever listens on the port decides, and any exception in the
\* exchange gives False.  With poll() not None the result is False.
server_is_healthy(w) ==
    IF procs[w.process].st # "dead"
    THEN IF Listening(w.available_port) THEN BOOLEAN ELSE {FALSE}
    ELSE {FALSE}

\* start_json_server without its early return on a healthy server.
sjs_branch_no_return(isActive, isHealthy) ==
    IF isActive THEN "sanitize" ELSE "build"

\* BaseWorker.start_json_server: which way the call goes.
sjs_branch(isActive, isHealthy) ==
    IF isActive
    THEN IF isHealthy THEN "return" ELSE "sanitize"
    ELSE "build"

\* execute without the lock around its lookup-or-insert.
lock_ignored(t) == TRUE

\* WORKERS_LOCK is a threading.RLock: free, or already held by the caller.
lock_free(t) == lockOwner = 0 \/ lockOwner = t

\* execute without the test of client.connected.
dispatch_branch_no_connected(hasClient, isConnected) ==
    IF hasClient THEN "send" ELSE "start"

\* Worker.execute, lines 333-341: which way the call goes.
dispatch_branch(hasClient, isConnected) ==
    IF hasClient
    THEN IF ~isConnected THEN "reconnect" ELSE "send"
    ELSE "start"

\* start reading self.port on every call.
start_allocates_always(w) == TRUE

\* LocalWorker.start, lines 134-139: whether self.port is read again.
start_allocates(w) == w.available_port = 0 \/ w.reconnecting

\* execute choosing LocalWorker whatever the settings say.
vagrant_is_never_active(s) == FALSE

\* Worker.vagrant_is_active: the view's settings hold a vagrant_environment.
vagrant_is_active(s) == s.vagrant

\* start clearing reconnecting once the new client is bound.
bind_client_and_reset(w, c) == [w EXCEPT !.client = c, !.reconnecting = FALSE]

\* self.client = AsynClient(self.available_port): the worker afterwards.
bind_client(w, c) == [w EXCEPT !.client = c]

\* helpers.create_subprocess, which is outside this source tree: whether the
\* call returns a process handle.  When it does not, the failure is an
\* exception that leaves build_server and start_json_server.
create_subprocess_returns == BOOLEAN

\* build_server forgetting the handle create_subprocess returned.
process_not_retained(w, h) == w

\* self.process = create_subprocess(args): the worker afterwards.
retain_process(w, h) == [w EXCEPT !.process = h]

\* RemoteWorker.check_config: the value of success.
check_config(s) == s.directory /\ s.network /\ s.mode /\ s.port

\* RemoteWorker.__init__ raises KeyError: config['network'] in check_config,
\* config['directory'] or config['machine'] in check_status.
init_raises(s) == ~s.network \/ ~s.directory \/ ~s.machine

\* RemoteWorker.check_status, nested function status: "checked = True" binds
\* a local of status, so check_status's own variable keeps its value.
status_sets_checked(outer) == outer

\* The call's record: kept for the observed threads only.
Record(t, s) ==
    stats' = [stats EXCEPT ![t] = IF t \in observed THEN s ELSE NoStats]

\* The except clauses of LocalWorker.start and of Worker.execute log and go on;
\* after start's, start returns and with it execute.
Caught(t, s) ==
    /\ Record(t, [s EXCEPT !.logged = TRUE, !.outcome = "returned"])
    /\ frames' = [frames EXCEPT ![t] = <<>>]
    /\ pc' = [pc EXCEPT ![t] = "idle"]

\* start_json_server returns: into the sanitize_server that called it, or into
\* start's polling loop.
AfterSjs(t) == IF frames[t] = <<>> THEN "s_poll" ELSE "san_ret"

\* ------------------------------------------------------- Worker.execute
\* A caller begins Worker.execute(callback, **data) in some window.
call(t) ==
    /\ t \in active
    /\ pc[t] = "idle"
    /\ callsLeft > 0
    /\ \E w \in windows, c \in Cmds :
          /\ win' = [win EXCEPT ![t] = w]
          /\ Record(t, [NoStats EXCEPT !.cmd = c])
    /\ callsLeft' = callsLeft - 1
    /\ UNCHANGED <<observed, windows>>
    /\ building' = [building EXCEPT ![t] = NoBuild]
    /\ pc' = [pc EXCEPT ![t] = "acquire"]
    /\ UNCHANGED <<WORKERS, lockOwner, constructed, procs, clients, foreign,
                   active, frames>>

\* with WORKERS_LOCK: if not window_id in WORKERS.  When the entry is there
\* the with block does nothing more and the lock is released at once.
acquire(t) ==
    /\ pc[t] = "acquire"
    /\ lock_free(t)
    /\ IF win[t] \in DOMAIN WORKERS
       THEN /\ pc' = [pc EXCEPT ![t] = "lookup"]
            /\ UNCHANGED lockOwner
       ELSE /\ pc' = [pc EXCEPT ![t] = "construct"]
            /\ lockOwner' = t
    /\ UNCHANGED <<WORKERS, constructed, procs, clients, foreign, active,
                   win, observed, windows, callsLeft, frames, building, stats>>

\* Lines 323-330, still under the lock: LocalWorker() returns at once and is
\* stored; RemoteWorker() runs check_config, reads hostname and port, and
\* enters check_status, or raises, which execute logs.
construct(t) ==
    /\ pc[t] = "construct"
    /\ \E s \in Settings :
          IF ~vagrant_is_active(s)
          THEN /\ WORKERS' = (win[t] :> BaseWorker("local", s)) @@ WORKERS
               /\ constructed' = [constructed EXCEPT ![win[t]] = @ + 1]
               /\ lockOwner' = 0
               /\ Record(t, [stats[t] EXCEPT !.created = TRUE])
               /\ pc' = [pc EXCEPT ![t] = "lookup"]
               /\ UNCHANGED building
          ELSE IF init_raises(s)
          THEN /\ lockOwner' = 0
               /\ Record(t, [stats[t] EXCEPT !.logged = TRUE])
               /\ pc' = [pc EXCEPT ![t] = "lookup"]
               /\ UNCHANGED <<WORKERS, constructed, building>>
          ELSE /\ building' = [building EXCEPT ![t] =
                    [obj |-> [BaseWorker("remote", s) EXCEPT
                                 !.hostname = "address",
                                 !.available_port = DefaultPort,
                                 !.support = IF check_config(s)
                                             THEN "unset" ELSE "false"],
                     cb |-> "pending", checked |-> FALSE, polled |-> FALSE]]
               /\ pc' = [pc EXCEPT ![t] = "r_poll"]
               /\ UNCHANGED <<WORKERS, constructed, lockOwner, stats>>
    /\ UNCHANGED <<procs, clients, foreign, active, win, observed, windows, callsLeft,
                   frames>>

\* VagrantStatus calls status(result): a failure sets support to False.
status_callback(t) ==
    /\ pc[t] = "r_poll"
    /\ building[t].cb = "pending"
    /\ \E success \in BOOLEAN :
          building' = [building EXCEPT ![t] =
              [@ EXCEPT !.cb = IF success THEN "ok" ELSE "failed",
                        !.obj.support = IF success THEN @ ELSE "false",
                        !.checked = status_sets_checked(@)]]
    /\ UNCHANGED <<WORKERS, lockOwner, constructed, procs, clients, foreign,
                   active, pc, win, observed, windows, callsLeft, frames, stats>>

\* check_status: while not checked: time.sleep(0.01).  When the loop ends,
\* __init__ sets support = True and execute stores the object.
check_status(t) ==
    /\ pc[t] = "r_poll"
    /\ IF building[t].checked
       THEN /\ WORKERS' = (win[t] :> [building[t].obj EXCEPT
                                         !.support = "true"]) @@ WORKERS
            /\ constructed' = [constructed EXCEPT ![win[t]] = @ + 1]
            /\ lockOwner' = 0
            /\ building' = [building EXCEPT ![t].polled = TRUE]
            /\ Record(t, [stats[t] EXCEPT !.created = TRUE])
            /\ pc' = [pc EXCEPT ![t] = "lookup"]
       ELSE /\ building' = [building EXCEPT ![t].polled =
                               building[t].cb \in {"ok", "failed"}]
            /\ UNCHANGED <<WORKERS, constructed, lockOwner, pc, stats>>
    /\ UNCHANGED <<procs, clients, foreign, active, win, observed, windows, callsLeft,
                   frames>>

\* worker = WORKERS[window_id] and lines 333-341.
dispatch(t) ==
    /\ pc[t] = "lookup"
    /\ IF win[t] \notin DOMAIN WORKERS
       THEN \* KeyError leaves execute
            /\ Record(t, [stats[t] EXCEPT !.outcome = "raised"])
            /\ pc' = [pc EXCEPT ![t] = "idle"]
            /\ UNCHANGED WORKERS
       ELSE LET w == Worker(t)
                b == dispatch_branch(w.client # 0,
                        IF w.client # 0 THEN clients[w.client].connected
                                        ELSE FALSE)
            IN  CASE b = "start" ->
                       /\ pc' = [pc EXCEPT ![t] = "start"]
                       /\ UNCHANGED <<WORKERS, stats>>
                  [] b = "reconnect" ->
                       /\ WORKERS' = [WORKERS EXCEPT
                                         ![win[t]].reconnecting = TRUE]
                       /\ pc' = [pc EXCEPT ![t] = "start"]
                       /\ UNCHANGED stats
                  [] b = "send" ->
                       /\ Record(t, [stats[t] EXCEPT
                             !.sent = Append(@, <<w.client, stats[t].cmd>>),
                             !.outcome = "returned"])
                       /\ pc' = [pc EXCEPT ![t] = "idle"]
                       /\ UNCHANGED WORKERS
    /\ UNCHANGED <<lockOwner, constructed, procs, clients, foreign, active,
                   win, observed, windows, callsLeft, frames, building>>

\* ------------------------------------------------------------ supervisors
\* LocalWorker.port: a port nothing is bound to at the moment it is read.
\* RemoteWorker.start up to its polling loop.
start(t) ==
    /\ pc[t] = "start"
    /\ LET w == Worker(t) IN
       IF w.kind = "local"
       THEN \* lines 134-139
            IF start_allocates(w)
            THEN \E p \in Ports :
                    /\ ~Listening(p)
                    /\ WORKERS' = [WORKERS EXCEPT
                                      ![win[t]].available_port = p]
                    /\ Record(t, [stats[t] EXCEPT !.allocs = @ + 1])
                    /\ pc' = [pc EXCEPT ![t] = "sjs"]
            ELSE /\ pc' = [pc EXCEPT ![t] = "sjs"]
                 /\ UNCHANGED <<WORKERS, stats>>
       ELSE \* lines 232-247
            \E dirExists \in BOOLEAN :
               IF w.support = "false" \/ ~dirExists
               THEN /\ Record(t, [stats[t] EXCEPT !.outcome = "returned"])
                    /\ pc' = [pc EXCEPT ![t] = "idle"]
                    /\ UNCHANGED WORKERS
               ELSE /\ pc' = [pc EXCEPT ![t] = "s_poll"]
                    /\ UNCHANGED <<WORKERS, stats>>
    /\ UNCHANGED <<lockOwner, constructed, procs, clients, foreign, active,
                   win, observed, windows, callsLeft, frames, building>>

\* BaseWorker.start_json_server with its two probes.  server_is_healthy
\* raises AttributeError when process is None; start catches it.
start_json_server(t) ==
    /\ pc[t] = "sjs"
    /\ LET w == Worker(t)
           isActive == server_is_active(w)
           s0 == stats[t]
       IN  IF isActive /\ w.process = 0
           THEN Caught(t, [s0 EXCEPT !.first =
                              IF @ = "none" THEN "other" ELSE @])
           ELSE \E h \in (IF isActive THEN server_is_healthy(w) ELSE {FALSE}) :
                  LET b == sjs_branch(isActive, h)
                      s1 == [s0 EXCEPT !.first =
                               IF @ # "none" THEN @
                               ELSE IF isActive /\ h THEN "healthy"
                               ELSE "other"]
                  IN  /\ Record(t, s1)
                      /\ pc' = [pc EXCEPT ![t] =
                                  IF b = "return" THEN AfterSjs(t) ELSE b]
                      /\ UNCHANGED frames
    /\ UNCHANGED <<WORKERS, lockOwner, constructed, procs, clients, foreign,
                   active, win, observed, windows, callsLeft, building>>

\* LocalWorker.sanitize_server: client.close() (AttributeError when client is
\* None), process.kill(), then start_json_server() again, one activation
\* deeper; past the interpreter's recursion limit that call raises.  kill()
\* on a process that has exited does nothing or, where Popen.send_signal
\* signals without looking at returncode, raises OSError.
sanitize_server(t) ==
    /\ pc[t] = "sanitize"
    /\ LET w == Worker(t) IN
       IF w.client = 0
       THEN /\ Caught(t, stats[t])
            /\ UNCHANGED <<clients, procs>>
       ELSE LET s1 == [stats[t] EXCEPT !.sanitized = @ + 1] IN
            /\ clients' = [clients EXCEPT ![w.client].closed = TRUE,
                                          ![w.client].connected = FALSE]
            /\ procs' = [procs EXCEPT ![w.process].st =
                            IF @ = "running" THEN "dying" ELSE @]
            /\ \E killRaises \in {FALSE, procs[w.process].st = "dead"} :
               IF killRaises \/ Len(frames[t]) >= MaxDepth
               THEN Caught(t, s1)
               ELSE /\ frames' = [frames EXCEPT ![t] =
                          Append(@, [port |-> w.available_port,
                                     hostname |-> w.hostname,
                                     process |-> w.process])]
                    /\ Record(t, s1)
                    /\ pc' = [pc EXCEPT ![t] = "sjs"]
    /\ UNCHANGED <<WORKERS, lockOwner, constructed, foreign, active, win,
                   observed, windows, callsLeft, building>>

\* LocalWorker.build_server: create_subprocess gives a new process handle,
\* or raises.
build_server(t) ==
    /\ pc[t] = "build"
    /\ \E ok \in create_subprocess_returns :
          IF ok
          THEN /\ Len(procs) < MaxProcs
               /\ procs' = Append(procs,
                     [win |-> win[t], port |-> Worker(t).available_port,
                      st |-> "running", bound |-> FALSE])
               /\ WORKERS' = [WORKERS EXCEPT
                     ![win[t]] = retain_process(Worker(t), Len(procs) + 1)]
               /\ Record(t, [stats[t] EXCEPT !.spawns = @ + 1])
               /\ pc' = [pc EXCEPT ![t] = AfterSjs(t)]
               /\ UNCHANGED frames
          ELSE /\ Caught(t, stats[t])
               /\ UNCHANGED <<procs, WORKERS>>
    /\ UNCHANGED <<lockOwner, constructed, clients, foreign, active, win,
                   observed, windows, callsLeft, building>>

\* The sanitize_server activations return, innermost first, and then the
\* start_json_server that start called.
sanitize_return(t) ==
    /\ pc[t] = "san_ret"
    /\ frames' = [frames EXCEPT ![t] = <<>>]
    /\ pc' = [pc EXCEPT ![t] = "s_poll"]
    /\ UNCHANGED <<WORKERS, lockOwner, constructed, procs, clients, foreign,
                   active, win, observed, windows, callsLeft, building, stats>>

\* while not self.server_is_active(): time.sleep(0.01), then
\* self.client = AsynClient(self.available_port); start and execute return.
poll(t) ==
    /\ pc[t] = "s_poll"
    /\ LET w == Worker(t) IN
       IF server_is_active(w)
       THEN /\ Len(clients) < MaxClients
            /\ clients' = Append(clients,
                  [port |-> w.available_port, hostname |-> w.hostname,
                   connected |-> TRUE, closed |-> FALSE])
            /\ WORKERS' = [WORKERS EXCEPT
                              ![win[t]] = bind_client(w, Len(clients) + 1)]
            /\ Record(t, [stats[t] EXCEPT !.bound = Len(clients) + 1,
                                            !.outcome = "returned"])
            /\ pc' = [pc EXCEPT ![t] = "idle"]
       ELSE IF w.kind = "remote" /\ w.support # "true"
       THEN /\ Record(t, [stats[t] EXCEPT !.outcome = "returned"])
            /\ pc' = [pc EXCEPT ![t] = "idle"]
            /\ UNCHANGED <<clients, WORKERS>>
       ELSE /\ Record(t, [stats[t] EXCEPT !.polls = Min(@ + 1, MaxPolls)])
            /\ UNCHANGED <<clients, WORKERS, pc>>
    /\ UNCHANGED <<lockOwner, constructed, procs, foreign, active, win,
                   observed, windows, callsLeft, frames, building>>

\* ------------------------------------------------------------ environment
\* A spawned server binds the port it was given, when nothing else holds it.
proc_bind(i) ==
    /\ procs[i].st = "running"
    /\ ~procs[i].bound
    /\ ~Listening(procs[i].port)
    /\ procs' = [procs EXCEPT ![i].bound = TRUE]
    /\ UNCHANGED <<WORKERS, lockOwner, constructed, clients, foreign, active,
                   pc, win, observed, windows, callsLeft, frames, building, stats>>

\* A server process ends: on its own, or after kill(); poll() is no longer
\* None and its port is released.
proc_exit(i) ==
    /\ procs[i].st # "dead"
    /\ procs' = [procs EXCEPT ![i].st = "dead", ![i].bound = FALSE]
    /\ UNCHANGED <<WORKERS, lockOwner, constructed, clients, foreign, active,
                   pc, win, observed, windows, callsLeft, frames, building, stats>>

\* A process outside this program binds a port nothing listens on (only the
\* ports some worker holds are followed: no probe goes to any other).
foreign_bind(p) ==
    /\ ~Listening(p)
    /\ \E w \in DOMAIN WORKERS : WORKERS[w].available_port = p
    /\ foreign' = foreign \cup {p}
    /\ UNCHANGED <<WORKERS, lockOwner, constructed, procs, clients, active,
                   pc, win, observed, windows, callsLeft, frames, building, stats>>

\* That process closes its socket again.
foreign_release(p) ==
    /\ p \in foreign
    /\ foreign' = foreign \ {p}
    /\ UNCHANGED <<WORKERS, lockOwner, constructed, procs, clients, active,
                   pc, win, observed, windows, callsLeft, frames, building, stats>>

\* The RPC client loses its connection: client.connected becomes False.
client_drop(c) ==
    /\ clients[c].connected
    /\ clients' = [clients EXCEPT ![c].connected = FALSE]
    /\ UNCHANGED <<WORKERS, lockOwner, constructed, procs, foreign, active,
                   pc, win, observed, windows, callsLeft, frames, building, stats>>

\* ---------------------------------------------------------- specification
ThreadNext(t) ==
    \/ call(t)
    \/ acquire(t)
    \/ construct(t)
    \/ check_status(t)
    \/ dispatch(t)
    \/ start(t)
    \/ start_json_server(t)
    \/ sanitize_server(t)
    \/ build_server(t)
    \/ sanitize_return(t)
    \/ poll(t)

EnvNext ==
    \/ \E t \in Threads : status_callback(t)
    \/ \E i \in DOMAIN procs : proc_bind(i)
    \/ \E i \in DOMAIN procs : proc_exit(i)
    \/ \E p \in Ports : foreign_bind(p)
    \/ \E p \in Ports : foreign_release(p)
    \/ \E c \in DOMAIN clients : client_drop(c)

Next == (\E t \in Threads : ThreadNext(t)) \/ EnvNext

Spec == Init /\ [][Next]_vars

\* One caller thread in one window: every execute call returns before the
\* next begins, and what each call does is recorded.
SeqInit == InitWith({1}, {1}, {1}, SeqCalls)

SeqSpec == SeqInit /\ [][Next]_vars

\* ------------------------------------------------------------------ claims
InStart == {"start", "sjs", "sanitize", "build", "san_ret", "s_poll"}

\* C1: however concurrent execute calls for one window interleave, at most
\* one supervisor is ever constructed for it, the entry of WORKERS is that
\* one supervisor (never a later one, never removed), and every call that
\* got past the lookup found it.
C1_RegistryUniqueness ==
    /\ \A w \in Windows :
          /\ constructed[w] <= 1
          /\ (w \in DOMAIN WORKERS) <=> (constructed[w] = 1)
    /\ \A t \in Threads :
          pc[t] \in InStart => constructed[win[t]] = 1

C1_Witness ==
    /\ pc[1] = "start" /\ pc[2] = "start"
    /\ win[1] = win[2]
    /\ constructed[win[1]] = 1

\* C2: an execute call that created a Local supervisor and, after its port
\* refused some polls, bound the client, has forwarded its command exactly
\* once when it returns.
C2_FirstCallForwardsOnce ==
    \A t \in Threads :
        (/\ pc[t] = "idle"
         /\ stats[t].created
         /\ stats[t].polls >= 1
         /\ stats[t].bound # 0
         /\ WORKERS[win[t]].kind = "local")
        => Len(stats[t].sent) = 1

\* C3: a step changes a Local supervisor's port only if it is start() with no
\* port assigned or with reconnecting set; start() with reconnecting set reads
\* a fresh port (one nothing listens on); start() with a port assigned and
\* reconnecting unset leaves the port alone.
C3_PortStability ==
    [][\A w \in DOMAIN WORKERS :
          LET old == WORKERS[w]
              new == WORKERS'[w]
              starting == {t \in Threads : /\ pc[t] = "start"
                                           /\ win[t] = w
                                           /\ pc'[t] # "start"}
          IN  old.kind = "local" =>
              /\ new.available_port # old.available_port =>
                    \E t \in starting :
                        old.available_port = 0 \/ old.reconnecting
              /\ \A t \in starting :
                    IF old.reconnecting
                    THEN /\ stats'[t].allocs = stats[t].allocs + 1
                         /\ new.available_port \in Ports
                         /\ ~Listening(new.available_port)
                    ELSE old.available_port # 0 =>
                         /\ new.available_port = old.available_port
                         /\ stats'[t].allocs = stats[t].allocs
      ]_vars

C3_Witness ==
    \E t \in Threads :
        /\ pc[t] = "sjs"
        /\ stats[t].allocs = 1
        /\ Worker(t).reconnecting
        /\ Worker(t).process # 0
        /\ procs[Worker(t).process].port # Worker(t).available_port

\* C4: once the status check of a RemoteWorker built from a descriptor
\* without network.port has completed and the constructor has looked at the
\* completion flag again, the supervisor is registered, unsupported, and has
\* no client.
C4_ConfigGating ==
    \A t \in Threads :
        (/\ building[t].obj.kind = "remote"
         /\ ~building[t].obj.config.port
         /\ building[t].polled)
        => /\ win[t] \in DOMAIN WORKERS
           /\ WORKERS[win[t]].support = "false"
           /\ WORKERS[win[t]].client = 0

\* C5: once the status check has reported failure and the constructor has
\* looked at the completion flag again, the supervisor is created and
\* registered with support False, and has no client.
C5_StatusFailureInert ==
    \A t \in Threads :
        (/\ building[t].cb = "failed"
         /\ building[t].polled)
        => /\ win[t] \in DOMAIN WORKERS
           /\ WORKERS[win[t]].kind = "remote"
           /\ WORKERS[win[t]].support = "false"
           /\ WORKERS[win[t]].client = 0

\* C6: when sanitize_server returns, hostname and port are those it started
\* with, the process it started with is no longer running, and the process
\* handle is another, newly spawned one.
C6_RespawnPreservesIdentity ==
    \A t \in Threads :
        pc[t] = "san_ret" =>
            \A i \in DOMAIN frames[t] :
                LET f == frames[t][i]
                    w == Worker(t)
                IN  /\ w.hostname = f.hostname
                    /\ w.available_port = f.port
                    /\ procs[f.process].st # "running"
                    /\ w.process # f.process
                    /\ w.process > f.process

\* C7: between sequential execute calls, every server process of a Local
\* session that is still running is the one its supervisor's handle names.
C7_OneLiveProcess ==
    (\A t \in active : pc[t] = "idle") =>
        \A i \in DOMAIN procs :
            procs[i].st = "running" =>
                /\ procs[i].win \in DOMAIN WORKERS
                /\ WORKERS[procs[i].win].process = i

\* C8: an execute call whose supervisor construction raised has logged it,
\* left no entry, and returns normally.
C8_ConstructionFailureContained ==
    \A t \in Threads :
        (pc[t] = "idle" /\ stats[t].logged /\ win[t] \notin DOMAIN WORKERS)
        => stats[t].outcome = "returned"

\* C9: on a registered supervisor execute (i) goes to start() when no client
\* is bound, (ii) sets reconnecting and goes to start() when the client is
\* not connected, (iii) otherwise sends the caller's command once through the
\* bound client and returns, changing nothing of the supervisor, of the
\* processes or of the clients.
C9_ExecuteDispatch ==
    [][\A t \in Threads :
          (pc[t] = "lookup" /\ pc'[t] # "lookup" /\ win[t] \in DOMAIN WORKERS)
          => LET w == WORKERS[win[t]]
                 w2 == WORKERS'[win[t]]
             IN  IF w.client = 0
                 THEN /\ pc'[t] = "start"
                      /\ w2 = w
                      /\ stats'[t] = stats[t]
                 ELSE IF ~clients[w.client].connected
                 THEN /\ pc'[t] = "start"
                      /\ w2 = [w EXCEPT !.reconnecting = TRUE]
                      /\ stats'[t] = stats[t]
                 ELSE /\ pc'[t] = "idle"
                      /\ w2 = w
                      /\ procs' = procs
                      /\ clients' = clients
                      /\ stats'[t] = [stats[t] EXCEPT
                            !.sent = <<<<w.client, stats[t].cmd>>>>,
                            !.outcome = "returned"]
      ]_vars

C9_Witness ==
    \E t \in Threads :
        /\ pc[t] = "idle"
        /\ Len(stats[t].sent) = 1
        /\ stats[t].spawns = 0 /\ stats[t].allocs = 0 /\ stats[t].polls = 0

\* C10: one execute call, hence one top-level start_json_server, spawns at
\* most one process, and spawns none and sanitizes none when its first check
\* found the server reachable and healthy.
C10_OneSpawnPerStart ==
    \A t \in Threads :
        /\ stats[t].spawns <= 1
        /\ stats[t].first = "healthy" =>
              stats[t].spawns = 0 /\ stats[t].sanitized = 0

C10_Witness ==
    \E t \in Threads :
        /\ stats[t].sanitized >= 1
        /\ stats[t].spawns = 1

\* C11: in a sequential execution, every client a supervisor had bound and
\* has replaced by a new one was closed: the only client that may be open is
\* the one some supervisor currently holds.
C11_OldClientClosed ==
    \A c \in DOMAIN clients :
        (\A w \in DOMAIN WORKERS : WORKERS[w].client # c)
        => clients[c].closed

\* A thread is inside sanitize_server from the call until its activations
\* have returned.
InSanitize(t) == pc[t] = "sanitize" \/ frames[t] # <<>>

\* C12: under any interleaving, no state has one thread inside
\* sanitize_server while a different thread is inside start() on the same
\* supervisor.
C12_SanitizeNotConcurrentWithStart ==
    \A t \in Threads, u \in Threads :
        (/\ t # u
         /\ InSanitize(t)
         /\ win[u] = win[t])
        => pc[u] \notin InStart

\* C13: when start_json_server runs with the port reachable and the owned
\* process already exited, it returns to its caller without sanitize_server
\* (no client.close(), no process.kill()) and without build_server, leaving
\* clients and processes as they were.
C13_ForeignOccupantNoRecovery ==
    [][\A t \in Threads :
          (/\ pc[t] = "sjs"
           /\ pc'[t] # "sjs"
           /\ Worker(t).process # 0
           /\ procs[Worker(t).process].st = "dead"
           /\ server_is_active(Worker(t)))
          => /\ pc'[t] = AfterSjs(t)
             /\ clients' = clients
             /\ procs' = procs
      ]_vars

\* The positions of start_json_server, sanitize_server and build_server.
InServerControl == {"sjs", "sanitize", "build", "san_ret"}

C15_SpawnErrorLeavesNothing ==
    [][\A t \in Threads :
          (pc[t] = "build" /\ pc'[t] = "idle")
          => /\ stats'[t].logged
             /\ stats'[t].outcome = "returned"
             /\ WORKERS'[win[t]].process = 0
             /\ WORKERS'[win[t]].client = 0
      ]_vars

\* C16: once the status callback has run (with success or failure) and the
\* loop of check_status has tested its flag again, the loop has ended: the
\* constructing thread is no longer in check_status.
C16_ConstructionTerminates ==
    \A t \in Threads :
        (building[t].cb \in {"ok", "failed"} /\ building[t].polled)
        => pc[t] # "r_poll"

\* C17: no thread waits for WORKERS_LOCK on behalf of one window while the
\* thread holding the lock is in a polling loop for another window.
C17_LockNotHeldWhilePolling ==
    \A t \in Threads, u \in Threads :
        (/\ lockOwner = t
         /\ pc[t] \in {"r_poll", "s_poll"})
        => ~(/\ u # t
             /\ pc[u] = "acquire"
             /\ win[u] # win[t])

\* C18: no step takes a worker's reconnecting from True back to False, and
\* every LocalWorker.start() on a worker whose reconnecting is True reads a
\* fresh port, also when a client was bound since the flag was set.
C18_ReconnectingMonotone ==
    [][\A w \in DOMAIN WORKERS :
          WORKERS[w].reconnecting =>
             /\ w \in DOMAIN WORKERS'
             /\ WORKERS'[w].reconnecting
             /\ \A t \in Threads :
                   (/\ pc[t] = "start"
                    /\ pc'[t] # "start"
                    /\ win[t] = w
                    /\ WORKERS[w].kind = "local")
                   => /\ pc'[t] = "sjs"
                      /\ stats'[t].allocs = stats[t].allocs + 1
                      /\ WORKERS'[w].available_port \in Ports
                      /\ ~Listening(WORKERS'[w].available_port)
      ]_vars

\* A start() that allocated, on a worker whose reconnect had succeeded: the
\* client it holds was bound after the first one.
C18_Witness ==
    \E t \in Threads :
        /\ pc[t] = "sjs"
        /\ stats[t].allocs = 1
        /\ Worker(t).reconnecting
        /\ Worker(t).client = 2
        /\ clients[1].port # clients[2].port

\* A LocalWorker with a client has a process handle and a port.
ClientImpliesProcess ==
    \A w \in DOMAIN WORKERS :
        (WORKERS[w].kind = "local" /\ WORKERS[w].client # 0)
        => /\ WORKERS[w].process # 0
           /\ WORKERS[w].available_port # 0

\* C19: under any interleaving, a LocalWorker with a client bound has a
\* process handle and an assigned port; and a start_json_server that finds
\* the port reachable while no process was ever spawned ends the call there:
\* no client is bound, no process is created, nothing is closed or killed.
C19_ClientImpliesProcess ==
    /\ []ClientImpliesProcess
    /\ [][\A t \in Threads :
             (/\ pc[t] = "sjs"
              /\ pc'[t] # "sjs"
              /\ Worker(t).kind = "local"
              /\ Worker(t).process = 0
              /\ server_is_active(Worker(t)))
             => /\ pc'[t] = "idle"
                /\ WORKERS' = WORKERS
                /\ procs' = procs
                /\ clients' = clients
        ]_vars

\* One supervisor has bound its client; the first start() of another finds
\* the port it was given already reachable.
C19_Witness ==
    \E t \in Threads, w \in DOMAIN WORKERS :
        /\ WORKERS[w].kind = "local"
        /\ WORKERS[w].client # 0
        /\ pc[t] = "sjs"
        /\ win[t] \in DOMAIN WORKERS
        /\ win[t] # w
        /\ Worker(t).process = 0
        /\ server_is_active(Worker(t))

\* C20: one start_json_server runs sanitize_server at most once (one
\* client.close, one process.kill), and no sanitize_server activation is
\* nested in another.
C20_RecursionDepthOne ==
    \A t \in Threads :
        /\ stats[t].sanitized <= 1
        /\ Len(frames[t]) <= 1

====
